---- MODULE Spec2Model ----
(***************************************************************************)
(* Model of src/main.py: the per-(gene, paper) summarisation pipeline.     *)
(*                                                                         *)
(* A Python str is modelled as a sequence of one-character strings, so     *)
(* that strip(), slicing, regular-expression matching and concatenation   *)
(* are computed character by character.                                    *)
(***************************************************************************)
EXTENDS Integers, Sequences, FiniteSets, TLC

VARIABLES
    pc,             \* position of the running function
    gene_id,        \* argument of process_paper / get_gene_synonyms
    pubmed_id,      \* argument of process_paper
    pubmed_json,    \* value returned by get_pubmed_json / argument of parse_pubmed_json
    pubmed_text,    \* get_summary: pubmed_text
    fetch_response, \* what requests.get produced (NoResponse before the call)
    alias_response, \* what requests.post produced (NoResponse before the call)
    synonyms,       \* get_summary: synonyms
    extract,        \* get_summary: extract
    summary,        \* get_summary: summary
    short_summary,  \* get_summary: short_summary
    title,          \* get_summary: title
    result,         \* value returned by process_paper (NoResult until it returns)
    raised,         \* class of the exception that left the running function ("none")
    calls,          \* call_prompt invocations so far: <<[stage, strings]>>
    outputs,        \* what each call_prompt invocation returned, or Failed
    fetch_calls,    \* number of requests.get calls
    alias_calls,    \* number of requests.post calls
    paper,          \* argument of count_substrings / get_gene_synonyms
    gene_string,    \* argument of count_substrings
    text,           \* argument of clean_text_output
    aliases,        \* list returned by get_vpdb_alias
    ret             \* value returned by the pure function under check

pipeVars == <<pubmed_id, pubmed_text, fetch_response, alias_response, synonyms,
              extract, summary, short_summary, title, result, calls, outputs,
              fetch_calls, alias_calls>>
fnVars == <<paper, gene_string, text, aliases, ret>>
vars == <<pc, gene_id, pubmed_json, raised, pipeVars, fnVars>>

-----------------------------------------------------------------------------
(* Bounds of the model *)

MaxPaperLen == 4
MaxGeneLen == 2
MaxTextLen == 5
MaxPassages == 2
MaxWords == 4

-----------------------------------------------------------------------------
(* Characters and strings *)

Letters == {"a", "A", "b", "B", "c", "d", "g"}
Digits == {"1"}
Whitespace == {" ", "\n"}
Quotes == {"'", "\""}

NoValue == "NoValue"
NoResult == [code |-> -1]
NoResponse == [kind |-> "none"]
Failed == <<"Failed">>

\* [a-zA-Z0-9] of the look-arounds
IsAlnum(c) == c \in Letters \cup Digits

\* re.IGNORECASE: characters are compared after case folding
casefold(c) ==
    IF c = "A" THEN "a" ELSE IF c = "B" THEN "b" ELSE c

SeqsUpTo(S, n) == UNION {[1..k -> S] : k \in 0..n}

-----------------------------------------------------------------------------
(* count_substrings *)

\* re.fullmatch(r'([a-zA-Z]+)([0-9]+)', gene_string): the length of group 1,
\* or 0 when the string does not match.
fullmatch_letters_digits(s) ==
    LET splits == {k \in 1..(Len(s) - 1) :
                      /\ \A i \in 1..k : s[i] \in Letters
                      /\ \A i \in (k + 1)..Len(s) : s[i] \in Digits}
    IN IF splits = {} THEN 0 ELSE CHOOSE k \in splits : TRUE

\* re.escape(s): every character of s matches itself only
escape(s) == [i \in 1..Len(s) |-> [ch |-> s[i], optional |-> FALSE]]

\* The pattern between the look-arounds: part1-?part2 or the escaped literal.
core_no_hyphen(s) == escape(s)

core(s) ==
    LET k == fullmatch_letters_digits(s)
    IN IF k > 0
       THEN escape(SubSeq(s, 1, k))
               \o <<[ch |-> "-", optional |-> TRUE]>>
               \o escape(SubSeq(s, k + 1, Len(s)))
       ELSE escape(s)

\* (?![a-zA-Z0-9]) at position i (the index of the next unread character)
lookahead(p, i) == i > Len(p) \/ ~IsAlnum(p[i])

\* (?<![a-zA-Z0-9]) at position i
lookbehind(p, i) == i = 1 \/ ~IsAlnum(p[i - 1])

\* The backtracking matcher: element k of pat at position i of p.  Returns the
\* position after the match, or 0 when there is none.  An optional element is
\* tried greedily first, then skipped.
RECURSIVE match_from(_, _, _, _)
match_from(p, i, pat, k) ==
    IF k > Len(pat)
    THEN IF lookahead(p, i) THEN i ELSE 0
    ELSE LET hit == i <= Len(p) /\ casefold(p[i]) = casefold(pat[k].ch)
             taken == IF hit THEN match_from(p, i + 1, pat, k + 1) ELSE 0
         IN IF pat[k].optional
            THEN IF taken # 0 THEN taken ELSE match_from(p, i, pat, k + 1)
            ELSE taken

match_at(p, i, pat) ==
    IF lookbehind(p, i) THEN match_from(p, i, pat, 1) ELSE 0

\* len(re.findall(pattern, paper, re.IGNORECASE)): scan left to right, resume
\* after each match (one position further after an empty match).
RECURSIVE findall_count(_, _, _)
findall_count(p, pat, pos) ==
    IF pos > Len(p) + 1
    THEN 0
    ELSE LET e == match_at(p, pos, pat)
         IN IF e = 0
            THEN findall_count(p, pat, pos + 1)
            ELSE 1 + findall_count(p, pat, IF e = pos THEN pos + 1 ELSE e)

count_substrings(p, g) == findall_count(p, core(g), 1)

-----------------------------------------------------------------------------
(* Specification of count_substrings on its own *)

PaperChars == {"a", "A", "1", "-", " "}
GeneChars == {"A", "1", "-"}

IdlePipe ==
    /\ pubmed_id = NoValue /\ pubmed_text = NoValue
    /\ fetch_response = NoResponse /\ alias_response = NoResponse
    /\ synonyms = NoValue /\ extract = NoValue /\ summary = NoValue
    /\ short_summary = NoValue /\ title = NoValue /\ result = NoResult
    /\ calls = <<>> /\ outputs = <<>> /\ fetch_calls = 0 /\ alias_calls = 0

InitCount ==
    /\ pc = "count_substrings"
    /\ paper \in SeqsUpTo(PaperChars, MaxPaperLen)
    /\ gene_string \in SeqsUpTo(GeneChars, MaxGeneLen)
    /\ text = NoValue /\ aliases = NoValue /\ ret = NoValue
    /\ gene_id = NoValue /\ pubmed_json = NoValue /\ raised = "none"
    /\ IdlePipe

CountSubstrings ==
    /\ pc = "count_substrings"
    /\ ret' = count_substrings(paper, gene_string)
    /\ pc' = "count_done"
    /\ UNCHANGED <<gene_id, pubmed_json, raised, pipeVars, paper, gene_string,
                   text, aliases>>

NextCount == CountSubstrings

SpecCount == InitCount /\ [][NextCount]_vars

-----------------------------------------------------------------------------
(* clean_text_output *)

\* str.strip(): drop leading and trailing whitespace
RECURSIVE lstrip(_)
lstrip(s) ==
    IF Len(s) > 0 /\ s[1] \in Whitespace THEN lstrip(Tail(s)) ELSE s

RECURSIVE rstrip(_)
rstrip(s) ==
    IF Len(s) > 0 /\ s[Len(s)] \in Whitespace
    THEN rstrip(SubSeq(s, 1, Len(s) - 1))
    ELSE s

strip(s) == rstrip(lstrip(s))

startswith(s, c) == Len(s) > 0 /\ s[1] = c
endswith(s, c) == Len(s) > 0 /\ s[Len(s)] = c

\* s[1:-1]
slice_1_m1(s) == SubSeq(s, 2, Len(s) - 1)

clean_text_output_once(t) ==
    LET s == strip(t)
    IN IF \/ startswith(s, "\"") /\ endswith(s, "\"")
          \/ startswith(s, "'") /\ endswith(s, "'")
       THEN slice_1_m1(s)
       ELSE s

clean_text_output(t) ==
    LET s == strip(t)
    IN IF \/ startswith(s, "\"") /\ endswith(s, "\"")
          \/ startswith(s, "'") /\ endswith(s, "'")
       THEN strip(slice_1_m1(s))
       ELSE s

TextChars == {" ", "\n", "\"", "'", "a"}

InitClean ==
    /\ pc = "clean_text_output"
    /\ text \in SeqsUpTo(TextChars, MaxTextLen)
    /\ paper = NoValue /\ gene_string = NoValue /\ aliases = NoValue
    /\ ret = NoValue
    /\ gene_id = NoValue /\ pubmed_json = NoValue /\ raised = "none"
    /\ IdlePipe

CleanTextOutput ==
    /\ pc = "clean_text_output"
    /\ ret' = clean_text_output(text)
    /\ pc' = "clean_done"
    /\ UNCHANGED <<gene_id, pubmed_json, raised, pipeVars, paper, gene_string,
                   text, aliases>>

NextClean == CleanTextOutput

SpecClean == InitClean /\ [][NextClean]_vars

-----------------------------------------------------------------------------
(* parse_pubmed_json *)

\* A key of a JSON object: present with a value, or missing
Present(v) == [has |-> TRUE, v |-> v]
Missing == [has |-> FALSE, v |-> <<>>]
MissingLabel == [has |-> FALSE, v |-> ""]

pubmed_sections == <<"TITLE", "FIG", "TABLE", "ABSTRACT", "INTRO", "RESULTS", "CONCL">>

\* str.upper() on the section labels of the model
upper(l) ==
    IF l = "abstract" THEN "ABSTRACT"
    ELSE IF l = "Results" THEN "RESULTS"
    ELSE l

\* dict.get(key, default)
get(o, default) == IF o.has THEN o.v ELSE default

upper_sections == {upper(pubmed_sections[i]) : i \in 1..Len(pubmed_sections)}

\* the body of the innermost loop, for one passage
passage_text_exact(passage) ==
    LET section_type == get(passage.section_type, "")
    IN IF section_type \in {pubmed_sections[i] : i \in 1..Len(pubmed_sections)}
       THEN IF passage.text.has THEN passage.text.v \o <<"\n">> ELSE <<>>
       ELSE <<>>

passage_text(passage) ==
    LET section_type == get(passage.section_type, "")
    IN IF upper(section_type) \in upper_sections
       THEN IF passage.text.has THEN passage.text.v \o <<"\n">> ELSE <<>>
       ELSE <<>>

RECURSIVE passages_text(_)
passages_text(passages) ==
    IF passages = <<>> THEN <<>>
    ELSE passage_text(Head(passages)) \o passages_text(Tail(passages))

RECURSIVE documents_text(_)
documents_text(documents) ==
    IF documents = <<>> THEN <<>>
    ELSE passages_text(get(Head(documents).passages, <<>>))
            \o documents_text(Tail(documents))

RECURSIVE parse_pubmed_json(_)
parse_pubmed_json(json) ==
    IF json = <<>> THEN <<>>
    ELSE documents_text(get(Head(json).documents, <<>>))
            \o parse_pubmed_json(Tail(json))

SectionLabels == {Present("ABSTRACT"), Present("abstract"), Present("METHODS"), MissingLabel}
PassageTexts == {Present(<<"a">>), Present(<<"b", "c">>), Missing}
Passages == [section_type : SectionLabels, text : PassageTexts]

Document(ps) == [passages |-> Present(ps)]
Doc(ds) == [documents |-> Present(ds)]
DocumentNoPassages == [passages |-> Missing]
DocNoDocuments == [documents |-> Missing]

\* The ways a list of passages is laid out in the BioC JSON
Layouts(ps) ==
    {<< Doc(<< Document(ps) >>) >>}
    \cup {<< Doc(<< Document(SubSeq(ps, 1, k)),
                     Document(SubSeq(ps, k + 1, Len(ps))) >>) >> : k \in 0..Len(ps)}
    \cup {<< Doc(<< Document(SubSeq(ps, 1, k)) >>),
             Doc(<< Document(SubSeq(ps, k + 1, Len(ps))) >>) >> : k \in 0..Len(ps)}
    \cup {<< Doc(<< Document(ps), DocumentNoPassages >>), DocNoDocuments >>}

PubmedJsons ==
    {<<>>} \cup UNION {Layouts(ps) : ps \in SeqsUpTo(Passages, MaxPassages)}

InitParse ==
    /\ pc = "parse_pubmed_json"
    /\ pubmed_json \in PubmedJsons
    /\ paper = NoValue /\ gene_string = NoValue /\ aliases = NoValue
    /\ text = NoValue /\ ret = NoValue
    /\ gene_id = NoValue /\ raised = "none"
    /\ IdlePipe

ParsePubmedJson ==
    /\ pc = "parse_pubmed_json"
    /\ ret' = parse_pubmed_json(pubmed_json)
    /\ pc' = "parse_done"
    /\ UNCHANGED <<gene_id, pubmed_json, raised, pipeVars, paper, gene_string,
                   text, aliases>>

NextParse == ParsePubmedJson

SpecParse == InitParse /\ [][NextParse]_vars

-----------------------------------------------------------------------------
(* get_gene_synonyms *)

\* the slice [:3] of the sorted aliases
TopN == 3

\* s[:n]
first_n(s, n) == SubSeq(s, 1, IF Len(s) < n THEN Len(s) ELSE n)

\* sorted(alias_count, key=alias_count.get, reverse=True): a stable sort, so
\* aliases with equal counts keep the order in which they were inserted.
insert_by_count(sorted, x, p) ==
    LET n == Cardinality({i \in 1..Len(sorted) :
                             count_substrings(p, sorted[i]) >= count_substrings(p, x)})
    IN SubSeq(sorted, 1, n) \o <<x>> \o SubSeq(sorted, n + 1, Len(sorted))

RECURSIVE sorted_by_count(_, _)
sorted_by_count(s, p) ==
    IF s = <<>> THEN <<>>
    ELSE insert_by_count(sorted_by_count(SubSeq(s, 1, Len(s) - 1), p), s[Len(s)], p)

\* get_gene_synonyms, given the list get_vpdb_alias returned
get_gene_synonyms_keep_gene(gene, p, alias_list) ==
    LET alias_count == SelectSeq(alias_list, LAMBDA a : count_substrings(p, a) > 0)
        sorted_aliases == sorted_by_count(alias_count, p)
    IN first_n(sorted_aliases, TopN)

get_gene_synonyms(gene, p, alias_list) ==
    LET without_gene == SelectSeq(alias_list, LAMBDA item : item # gene)
        alias_count == SelectSeq(without_gene, LAMBDA a : count_substrings(p, a) > 0)
        sorted_aliases == sorted_by_count(alias_count, p)
    IN first_n(sorted_aliases, TopN)

Words == {"a", "b", "c", "d"}
AliasPool == {<<"a">>, <<"b">>, <<"c">>, <<"d">>}
GeneIds == {<<"d">>, <<"g">>}

RECURSIVE join_words(_)
join_words(ws) ==
    IF ws = <<>> THEN <<>>
    ELSE IF Len(ws) = 1 THEN <<ws[1]>>
    ELSE <<ws[1], " ">> \o join_words(Tail(ws))

Papers == {join_words(ws) : ws \in SeqsUpTo(Words, MaxWords)}

\* list(alias_set): the aliases in any order, each once
AliasLists ==
    {s \in SeqsUpTo(AliasPool, Cardinality(AliasPool)) :
        \A i, j \in 1..Len(s) : i # j => s[i] # s[j]}

InitSyn ==
    /\ pc = "get_gene_synonyms"
    /\ gene_id \in GeneIds
    /\ paper \in Papers
    /\ aliases \in AliasLists
    /\ gene_string = NoValue /\ text = NoValue /\ ret = NoValue
    /\ pubmed_json = NoValue /\ raised = "none"
    /\ IdlePipe

GetGeneSynonyms ==
    /\ pc = "get_gene_synonyms"
    /\ ret' = get_gene_synonyms(gene_id, paper, aliases)
    /\ pc' = "synonyms_done"
    /\ UNCHANGED <<gene_id, pubmed_json, raised, pipeVars, paper, gene_string,
                   text, aliases>>

NextSyn == GetGeneSynonyms

SpecSyn == InitSyn /\ [][NextSyn]_vars

-----------------------------------------------------------------------------
(* Properties of the pure functions *)

Range(s) == {s[i] : i \in 1..Len(s)}

\* C3: the synonym selector returns at most 3 aliases, never the primary id,
\* never an alias that does not occur in the paper, in non-increasing order of
\* occurrence count, and nothing at all when no alias occurs.
C3_SelectorContract ==
    pc = "synonyms_done" =>
        /\ Len(ret) <= 3
        /\ \A i \in 1..Len(ret) :
              /\ ret[i] # gene_id
              /\ ret[i] \in Range(aliases)
              /\ count_substrings(paper, ret[i]) > 0
        /\ \A i, j \in 1..Len(ret) :
              i < j => count_substrings(paper, ret[i]) >= count_substrings(paper, ret[j])
        /\ (\A a \in Range(aliases) \ {gene_id} : count_substrings(paper, a) = 0)
              => ret = <<>>

C3_Witness ==
    /\ pc = "synonyms_done"
    /\ gene_id = <<"d">>
    /\ gene_id \in Range(aliases)
    /\ count_substrings(paper, gene_id) > 0
    /\ Len(aliases) = 4
    /\ Len(ret) = 3

\* The occurrences the claim counts: a stretch of the paper that equals the
\* candidate (or, for a letters+digits candidate, the candidate with one hyphen
\* between the letters and the digits) ignoring case, with no alphanumeric
\* character right before or right after it.
EqualIgnoringCase(a, b) ==
    /\ Len(a) = Len(b)
    /\ \A i \in 1..Len(a) : casefold(a[i]) = casefold(b[i])

Forms(g) ==
    LET k == fullmatch_letters_digits(g)
    IN {g} \cup (IF k > 0
                 THEN {SubSeq(g, 1, k) \o <<"-">> \o SubSeq(g, k + 1, Len(g))}
                 ELSE {})

Occurrences(p, g) ==
    {o \in (1..Len(p)) \X (1..Len(p)) :
        /\ o[1] <= o[2]
        /\ \E f \in Forms(g) : EqualIgnoringCase(SubSeq(p, o[1], o[2]), f)
        /\ (o[1] = 1 \/ ~IsAlnum(p[o[1] - 1]))
        /\ (o[2] = Len(p) \/ ~IsAlnum(p[o[2] + 1]))}

NonOverlapping(O) ==
    \A x, y \in O : x # y => (x[2] < y[1] \/ y[2] < x[1])

MostNonOverlapping(O) ==
    CHOOSE n \in 0..Cardinality(O) :
        /\ \E S \in SUBSET O : Cardinality(S) = n /\ NonOverlapping(S)
        /\ \A S \in SUBSET O : NonOverlapping(S) => Cardinality(S) <= n

\* C4: for a non-empty candidate, count_substrings returns the number of
\* non-overlapping, case-insensitive, boundary-isolated occurrences, the
\* hyphenated form of a letters+digits candidate included.
C4_CountsIsolatedOccurrences ==
    (pc = "count_done" /\ gene_string # <<>>) =>
        ret = MostNonOverlapping(Occurrences(paper, gene_string))

C4_Witness ==
    /\ pc = "count_done"
    /\ gene_string = <<"A", "1">>
    /\ paper = <<"a", "-", "1", " ">>
    /\ ret = 1

\* C9: count_substrings raises ValueError for an empty gene_string.
C9_EmptyGeneStringRaises ==
    (pc = "count_done" /\ gene_string = <<>>) => raised = "ValueError"

\* The text without its surrounding whitespace, stated without str.strip()
Stretches(s) == {SubSeq(s, i, j) : i \in 1..(Len(s) + 1), j \in 0..Len(s)}

IsTrimOf(r, s) ==
    \E i \in 1..(Len(s) + 1), j \in 0..Len(s) :
        /\ r = SubSeq(s, i, j)
        /\ \A k \in 1..Len(s) : (k < i \/ k > j) => s[k] \in Whitespace
        /\ r # <<>> => (r[1] \notin Whitespace /\ r[Len(r)] \notin Whitespace)

Trimmed(s) == CHOOSE r \in Stretches(s) : IsTrimOf(r, s)

Enclosed(t) == Len(t) > 0 /\ t[1] \in Quotes /\ t[1] = t[Len(t)]

\* C7 as stated: trim, then remove one enclosing pair of quotes, and nothing else.
C7_TrimThenUnquote ==
    pc = "clean_done" =>
        LET t == Trimmed(text)
        IN ret = IF Enclosed(t) THEN SubSeq(t, 2, Len(t) - 1) ELSE t

\* C7 amended: trim, then remove one enclosing pair of quotes (a lone quote
\* character counts as enclosed and leaves nothing), then trim what is left.
C7_TrimUnquoteTrim ==
    pc = "clean_done" =>
        LET t == Trimmed(text)
        IN ret = IF Enclosed(t) THEN Trimmed(SubSeq(t, 2, Len(t) - 1)) ELSE t

C7_Witness ==
    /\ pc = "clean_done"
    /\ text = <<" ", "\"", " ", "a", "\"">>
    /\ ret = <<"a">>

\* The passages of a document in their original order
RECURSIVE AllPassages(_)
AllPassages(json) ==
    IF json = <<>> THEN <<>>
    ELSE LET documents == IF Head(json).documents.has THEN Head(json).documents.v ELSE <<>>
             RECURSIVE Of(_)
             Of(ds) == IF ds = <<>> THEN <<>>
                       ELSE (IF Head(ds).passages.has THEN Head(ds).passages.v ELSE <<>>)
                               \o Of(Tail(ds))
         IN Of(documents) \o AllPassages(Tail(json))

AllowList == {"TITLE", "FIG", "TABLE", "ABSTRACT", "INTRO", "RESULTS", "CONCL"}

Included(passage) ==
    /\ passage.text.has
    /\ passage.section_type.has
    /\ upper(passage.section_type.v) \in AllowList

IncludedTexts(json) ==
    LET kept == SelectSeq(AllPassages(json), Included)
    IN [i \in 1..Len(kept) |-> kept[i].text.v]

RECURSIVE JoinedWithNewlines(_)
JoinedWithNewlines(ts) ==
    IF ts = <<>> THEN <<>>
    ELSE IF Len(ts) = 1 THEN ts[1]
    ELSE ts[1] \o <<"\n">> \o JoinedWithNewlines(Tail(ts))

RECURSIVE EachFollowedByNewline(_)
EachFollowedByNewline(ts) ==
    IF ts = <<>> THEN <<>>
    ELSE ts[1] \o <<"\n">> \o EachFollowedByNewline(Tail(ts))

\* C8 as stated: the included texts, in order, joined with newlines.
C8_JoinedWithNewlines ==
    pc = "parse_done" => ret = JoinedWithNewlines(IncludedTexts(pubmed_json))

\* C8 amended: the included texts, in order, each followed by a newline.
C8_EachFollowedByNewline ==
    pc = "parse_done" => ret = EachFollowedByNewline(IncludedTexts(pubmed_json))

C8_Witness ==
    /\ pc = "parse_done"
    /\ Len(AllPassages(pubmed_json)) = 2
    /\ AllPassages(pubmed_json)[1].section_type = Present("abstract")
    /\ AllPassages(pubmed_json)[2].section_type = Present("METHODS")
    /\ ret = <<"b", "c", "\n">>

-----------------------------------------------------------------------------
(* The external collaborators: what requests.get, requests.post and the     *)
(* completion client can produce                                            *)

PubmedIds == {"27128092", "31000000"}

AbstractPassage == [section_type |-> Present("ABSTRACT"), text |-> Present(<<"a", " ", "b">>)]
MethodsPassage == [section_type |-> Present("METHODS"), text |-> Present(<<"c">>)]
ResultsPassage == [section_type |-> Present("Results"), text |-> Present(<<"a", "-", "1", " ", "a">>)]

FetchedJsons ==
    { <<>>,
      << Doc(<< Document(<<AbstractPassage>>) >>) >>,
      << Doc(<< Document(<<AbstractPassage, MethodsPassage, ResultsPassage>>) >>) >> }

\* requests.get: a response with a status code, a Content-Type and a body, or
\* a transport failure (requests raises ConnectionError)
FetchResponses ==
    {[kind |-> "json", status_code |-> 200, content_type |-> "application/json",
      json |-> j] : j \in FetchedJsons}
    \cup {[kind |-> "html", status_code |-> 200, content_type |-> "text/html"]}
    \cup {[kind |-> "status", status_code |-> c, content_type |-> "text/html"] :
             c \in {404, 500}}
    \cup {[kind |-> "bad_json", status_code |-> 200, content_type |-> "application/json"]}
    \cup {[kind |-> "transport"]}

AliasRowSets == { {}, {<<"a">>, <<"b">>}, {<<"a">>, <<"d">>, <<"a", "1">>} }

\* requests.post: a 200 response whose body has the Alias table, a 200 response
\* without "tables", a non-200 response, a body that is not JSON, a row without
\* the "alias" key, or a transport failure
AliasResponses ==
    {[kind |-> "tables", status_code |-> 200, rows |-> r] : r \in AliasRowSets}
    \cup {[kind |-> "no_tables", status_code |-> 200]}
    \cup {[kind |-> "status", status_code |-> c] : c \in {404, 500}}
    \cup {[kind |-> "bad_json", status_code |-> 200]}
    \cup {[kind |-> "bad_row", status_code |-> 200]}
    \cup {[kind |-> "transport"]}

\* what client.chat.completions.create(...).choices[0].message.content can be
CompletionOutputs == { <<"x">>, <<"\"", " ", "y", "\"">>, <<" ", "z", "\n">> }

\* str(status_code)
str(n) == IF n = 404 THEN "404" ELSE IF n = 500 THEN "500" ELSE "200"

JSONDecodeMessage == <<"Expecting value: line 1 column 1 (char 0)">>

Returned(v) == [exc |-> "none", message |-> <<>>, value |-> v]
Raised(e, m) == [exc |-> e, message |-> m, value |-> <<>>]

-----------------------------------------------------------------------------
(* get_pubmed_json *)

get_pubmed_json_unchecked(response) ==
    IF response.kind = "transport"
    THEN Raised("ConnectionError", <<"Connection aborted">>)
    ELSE IF response.status_code = 200
    THEN IF response.kind = "json"
         THEN Returned(response.json)
         ELSE Raised("JSONDecodeError", JSONDecodeMessage)
    ELSE Raised("ValueError", <<"Paper fetch status code: ", str(response.status_code)>>)

get_pubmed_json(response) ==
    IF response.kind = "transport"
    THEN Raised("ConnectionError", <<"Connection aborted">>)
    ELSE IF response.status_code = 200
    THEN IF response.content_type # "application/json"
         THEN Raised("ValueError", <<"Paper not found">>)
         ELSE IF response.kind = "json"
              THEN Returned(response.json)
              ELSE Raised("JSONDecodeError", JSONDecodeMessage)
    ELSE Raised("ValueError", <<"Paper fetch status code: ", str(response.status_code)>>)

(* get_vpdb_alias: the alias_set it builds, before list(alias_set) *)

get_vpdb_alias(response) ==
    IF response.kind = "transport"
    THEN Raised("ConnectionError", <<"Connection aborted">>)
    ELSE IF response.status_code # 200
    THEN Returned({})
    ELSE IF response.kind = "bad_json"
    THEN Raised("JSONDecodeError", JSONDecodeMessage)
    ELSE IF response.kind = "bad_row"
    THEN Raised("KeyError", <<"'alias'">>)
    ELSE IF response.kind = "tables"
    THEN Returned(response.rows)
    ELSE Returned({})

\* list(alias_set): the elements of the set, each once, in any order
ListsOf(S) ==
    {s \in [1..Cardinality(S) -> S] : \A i, j \in 1..Cardinality(S) : i # j => s[i] # s[j]}

(* gene_to_prompt *)

RECURSIVE join_or(_)
join_or(genes) ==
    IF genes = <<>> THEN <<>>
    ELSE IF Len(genes) = 1 THEN genes[1]
    ELSE genes[1] \o <<" or ">> \o join_or(Tail(genes))

gene_to_prompt(gene, genes) ==
    IF Len(genes) = 0
    THEN gene
    ELSE gene \o <<" ( also known as ">> \o join_or(genes) \o <<" )">>

(* get_prompt_and_replace: each template is the text before [gene], the     *)
(* placeholder, and the text after it                                       *)

global_prompts ==
    [extract |-> <<"From the text given, extract and quote all of the information which is related to ", "[gene]", ". Quote all specific results">>,
     summary |-> <<"ROLE: You are a scientist preparing a literature review making a study of the of the gene known as ", "[gene]", " GOAL: Your purpose is">>,
     short_summary |-> <<" Give a one-sentence overview summary for ", "[gene]", " in the previous text.">>,
     title |-> <<" Give a short title describing the role of ", "[gene]", " in the previous text.">>]

RECURSIVE replace(_, _, _)
replace(full_text, placeholder, value) ==
    IF full_text = <<>> THEN <<>>
    ELSE (IF Head(full_text) = placeholder THEN value ELSE <<Head(full_text)>>)
            \o replace(Tail(full_text), placeholder, value)

get_prompt_and_replace(key, replacements) ==
    replace(global_prompts[key], "[gene]", replacements.gene)

(* process_paper: the except clause and the result it builds *)

\* the exception classes that are ValueError or derive from it
ValueErrors == {"ValueError", "JSONDecodeError"}

process_paper_except_all(e, g, p) ==
    [pc |-> "returned", raised |-> "none",
     result |-> [code |-> 1, message |-> e.message, gene_id |-> g, pubmed_id |-> p]]

process_paper_except(e, g, p) ==
    IF e.exc \in ValueErrors
    THEN [pc |-> "returned", raised |-> "none",
          result |-> [code |-> 1, message |-> e.message, gene_id |-> g, pubmed_id |-> p]]
    ELSE [pc |-> "raised", raised |-> e.exc, result |-> NoResult]

-----------------------------------------------------------------------------
(* The pipeline: process_paper -> get_summary *)

Init ==
    /\ pc = "get_pubmed_json"
    /\ gene_id \in GeneIds
    /\ pubmed_id \in PubmedIds
    /\ pubmed_json = NoValue /\ pubmed_text = NoValue
    /\ fetch_response = NoResponse /\ alias_response = NoResponse
    /\ synonyms = NoValue /\ extract = NoValue /\ summary = NoValue
    /\ short_summary = NoValue /\ title = NoValue /\ result = NoResult
    /\ raised = "none"
    /\ calls = <<>> /\ outputs = <<>> /\ fetch_calls = 0 /\ alias_calls = 0
    /\ paper = NoValue /\ gene_string = NoValue /\ text = NoValue
    /\ aliases = NoValue /\ ret = NoValue

\* an exception leaves get_summary and reaches the try of process_paper
Leave(e) ==
    LET after == process_paper_except(e, gene_id, pubmed_id)
    IN /\ pc' = after.pc
       /\ raised' = after.raised
       /\ result' = after.result

\* lines 317-319: fetch the document and take the text of its sections
GetPubmedJson ==
    /\ pc = "get_pubmed_json"
    /\ \E response \in FetchResponses :
          LET got == get_pubmed_json(response)
          IN /\ fetch_response' = response
             /\ fetch_calls' = fetch_calls + 1
             /\ IF got.exc = "none"
                THEN /\ pubmed_json' = got.value
                     /\ pubmed_text' = parse_pubmed_json(got.value)
                     /\ pc' = "get_gene_synonyms"
                     /\ UNCHANGED <<raised, result>>
                ELSE /\ Leave(got)
                     /\ UNCHANGED <<pubmed_json, pubmed_text>>
    /\ UNCHANGED <<gene_id, pubmed_id, alias_response, synonyms, extract, summary,
                   short_summary, title, calls, outputs, alias_calls, fnVars>>

\* line 322: look the aliases up and keep the three most used in the paper
GetSynonyms ==
    /\ pc = "get_gene_synonyms"
    /\ \E response \in AliasResponses :
          LET got == get_vpdb_alias(response)
          IN /\ alias_response' = response
             /\ alias_calls' = alias_calls + 1
             /\ IF got.exc = "none"
                THEN /\ \E alias_list \in ListsOf(got.value) :
                           /\ aliases' = alias_list
                           /\ synonyms' = get_gene_synonyms(gene_id, pubmed_text, alias_list)
                     /\ pc' = "extract"
                     /\ UNCHANGED <<raised, result>>
                ELSE /\ Leave(got)
                     /\ UNCHANGED <<aliases, synonyms>>
    /\ UNCHANGED <<gene_id, pubmed_id, pubmed_json, pubmed_text, fetch_response,
                   extract, summary, short_summary, title, calls, outputs,
                   fetch_calls, paper, gene_string, text, ret>>

\* lines 324-325
replacements == [gene |-> gene_to_prompt(gene_id, synonyms)]

\* call_prompt raising: the completion client's errors derive from OpenAIError
CompletionError == Raised("OpenAIError", <<"Connection error.">>)

\* one call_prompt invocation for `stage` with first message `first`; `out` is
\* what it returned, or Failed when the client raised
CallPrompt(stage, first, out) ==
    /\ calls' = Append(calls, [stage |-> stage,
                               strings |-> <<first, get_prompt_and_replace(stage, replacements)>>])
    /\ outputs' = Append(outputs, out)

\* lines 328-329
CallExtractRetrying ==
    /\ pc = "extract"
    /\ \/ \E out \in CompletionOutputs :
             /\ CallPrompt("extract", pubmed_text, out)
             /\ extract' = out
             /\ pc' = "summary"
             /\ UNCHANGED <<raised, result>>
       \/ /\ CallPrompt("extract", pubmed_text, Failed)
          /\ Len(calls) < 3
          /\ UNCHANGED <<pc, extract, raised, result>>
    /\ UNCHANGED <<gene_id, pubmed_id, pubmed_json, pubmed_text, fetch_response,
                   alias_response, synonyms, summary, short_summary, title,
                   fetch_calls, alias_calls, fnVars>>

CallExtract ==
    /\ pc = "extract"
    /\ \/ \E out \in CompletionOutputs :
             /\ CallPrompt("extract", pubmed_text, out)
             /\ extract' = out
             /\ pc' = "summary"
             /\ UNCHANGED <<raised, result>>
       \/ /\ CallPrompt("extract", pubmed_text, Failed)
          /\ Leave(CompletionError)
          /\ UNCHANGED extract
    /\ UNCHANGED <<gene_id, pubmed_id, pubmed_json, pubmed_text, fetch_response,
                   alias_response, synonyms, summary, short_summary, title,
                   fetch_calls, alias_calls, fnVars>>

\* lines 332-333
CallSummary ==
    /\ pc = "summary"
    /\ \/ \E out \in CompletionOutputs :
             /\ CallPrompt("summary", extract, out)
             /\ summary' = clean_text_output(out)
             /\ pc' = "short_summary"
             /\ UNCHANGED <<raised, result>>
       \/ /\ CallPrompt("summary", extract, Failed)
          /\ Leave(CompletionError)
          /\ UNCHANGED summary
    /\ UNCHANGED <<gene_id, pubmed_id, pubmed_json, pubmed_text, fetch_response,
                   alias_response, synonyms, extract, short_summary, title,
                   fetch_calls, alias_calls, fnVars>>

\* lines 337-338
CallShortSummary ==
    /\ pc = "short_summary"
    /\ \/ \E out \in CompletionOutputs :
             /\ CallPrompt("short_summary", summary, out)
             /\ short_summary' = clean_text_output(out)
             /\ pc' = "title"
             /\ UNCHANGED <<raised, result>>
       \/ /\ CallPrompt("short_summary", summary, Failed)
          /\ Leave(CompletionError)
          /\ UNCHANGED short_summary
    /\ UNCHANGED <<gene_id, pubmed_id, pubmed_json, pubmed_text, fetch_response,
                   alias_response, synonyms, extract, summary, title,
                   fetch_calls, alias_calls, fnVars>>

\* lines 340-347, and the return of process_paper
TitleStage(first) ==
    /\ pc = "title"
    /\ \/ \E out \in CompletionOutputs :
             /\ CallPrompt("title", first, out)
             /\ title' = clean_text_output(out)
             /\ result' = [code |-> 0, message |-> <<"OK">>,
                           title |-> clean_text_output(out),
                           short_summary |-> short_summary, summary |-> summary,
                           extract |-> extract, gene_id |-> gene_id,
                           pubmed_id |-> pubmed_id, synonyms |-> synonyms,
                           paper_text |-> pubmed_text]
             /\ pc' = "returned"
             /\ UNCHANGED raised
       \/ /\ CallPrompt("title", first, Failed)
          /\ Leave(CompletionError)
          /\ UNCHANGED title
    /\ UNCHANGED <<gene_id, pubmed_id, pubmed_json, pubmed_text, fetch_response,
                   alias_response, synonyms, extract, summary, short_summary,
                   fetch_calls, alias_calls, fnVars>>

CallTitleFromSummary == TitleStage(summary)

CallTitle == TitleStage(extract)

Next ==
    \/ GetPubmedJson
    \/ GetSynonyms
    \/ CallExtract
    \/ CallSummary
    \/ CallShortSummary
    \/ CallTitle

Spec == Init /\ [][Next]_vars

-----------------------------------------------------------------------------
(* Properties of the pipeline *)

Finished == pc \in {"returned", "raised"}

FetchFailed == fetch_response.kind \in {"html", "status"}

FetchFailureReason ==
    IF fetch_response.kind = "html"
    THEN <<"Paper not found">>
    ELSE <<"Paper fetch status code: ", str(fetch_response.status_code)>>

\* C1: when the document fetch fails (paper not found, or a non-success
\* status), process_paper returns code 1 with the failure reason, the gene id
\* and the paper id, and neither the alias lookup nor a completion is invoked.
C1_FetchFailureEnvelope ==
    FetchFailed =>
        /\ pc = "returned"
        /\ result = [code |-> 1, message |-> FetchFailureReason,
                     gene_id |-> gene_id, pubmed_id |-> pubmed_id]
        /\ alias_calls = 0
        /\ calls = <<>>
        /\ outputs = <<>>

C1_Witness ==
    /\ fetch_response.kind = "html"
    /\ pc = "returned"
    /\ result.code = 1
    /\ result.message = <<"Paper not found">>

StageOrder == <<"extract", "summary", "short_summary", "title">>

\* C2: the completion stages are invoked in the order extract, summary,
\* short_summary, title, each after the previous one returned; the first
\* message is the paper text for extract, the extract output for summary, the
\* cleaned summary output for short_summary, and the extract output for title.
C2_StageOrderAndInputs ==
    /\ Len(calls) <= 4
    /\ \A i \in 1..Len(calls) :
          /\ calls[i].stage = StageOrder[i]
          /\ i > 1 => (Len(outputs) >= i - 1 /\ outputs[i - 1] # Failed)
          /\ calls[i].strings[1] =
                IF i = 1 THEN pubmed_text
                ELSE IF i = 2 THEN outputs[1]
                ELSE IF i = 3 THEN clean_text_output(outputs[2])
                ELSE outputs[1]

C2_Witness ==
    /\ Len(calls) = 4
    /\ pc = "returned"
    /\ outputs[1] # outputs[2]
    /\ clean_text_output(outputs[2]) # outputs[2]
    /\ outputs[1] # clean_text_output(outputs[2])
    /\ calls[4].strings[1] = outputs[1]

AliasLookupFailed == alias_response.kind \in {"status", "transport", "bad_json", "bad_row"}

CompletionFailed == \E i \in 1..Len(outputs) : outputs[i] = Failed

\* C5: a failed alias lookup of any kind gives an empty alias set and never an
\* error: the run goes on to the prompt chain and, when the completions
\* succeed, returns code 0 with no synonyms.
C5_AliasFailureSwallowed ==
    (AliasLookupFailed /\ ~CompletionFailed) =>
        /\ pc # "raised"
        /\ synonyms = <<>>
        /\ pc = "returned" => (result.code = 0 /\ result.synonyms = <<>>)

\* C6: a failed completion aborts the chain at that stage and propagates to the
\* caller of process_paper: no later stage runs and no result is returned.
C6_CompletionFailurePropagates ==
    \A i \in 1..Len(outputs) :
        outputs[i] = Failed =>
            /\ i = Len(outputs)
            /\ Len(calls) = i
            /\ pc = "raised"
            /\ raised = "OpenAIError"
            /\ result = NoResult

C6_Witness ==
    /\ Len(outputs) = 3
    /\ outputs[3] = Failed
    /\ pc = "raised"

\* C10: nothing is retried: one run makes at most one document fetch, one alias
\* lookup and one completion call per stage, and a run that returns code 0 made
\* exactly four completion calls.
C10_NoRetry ==
    /\ fetch_calls <= 1
    /\ alias_calls <= 1
    /\ \A i, j \in 1..Len(calls) : i # j => calls[i].stage # calls[j].stage
    /\ Finished => fetch_calls = 1
    /\ result.code = 0 => (Len(calls) = 4 /\ fetch_calls = 1 /\ alias_calls = 1)

C10_Witness ==
    /\ pc = "returned"
    /\ result.code = 0
    /\ Len(calls) = 4

====
